---- MODULE Spec2Model ----
(***************************************************************************)
(* tinycode (index.ts): the REPL / agent loop of main(), the SIGINT        *)
(* handler, runTool, and the exec tool (spawn, two stream drains, timer).  *)
(*                                                                         *)
(* Three specifications share the module:                                  *)
(*   Spec      the orchestrator: main's `for await (line of console)` loop *)
(*             with the inner `while (!stopRequested)` agent loop;         *)
(*   SpecExec  one call of TOOLS.exec, its process, pipes and timer        *)
(*             (SpecExecFair: with the event loop's fairness);             *)
(*   SpecTools calls of runTool on the handlers, and makeSchema.           *)
(***************************************************************************)
EXTENDS Integers, Sequences, FiniteSets, TLC

----------------------------------------------------------------------------
(* Bounds of the model *)

\* transport calls issued in one run of the program
MaxCalls == 2
\* content blocks the remote endpoint returns in one run, over all responses
MaxBlocks == 3
\* chunks a spawned command writes, over both of its output channels
MaxChunks == 3

----------------------------------------------------------------------------
(* Orchestrator state *)

VARIABLES
    pc,                 \* position of main: "idle" (awaiting a console line),
                        \* "calling" (await callAPI), "tool" (await runTool), "done"
    messages,           \* const messages: Message[]                  (line 271)
    stopRequested,      \* let stopRequested                           (line 15)
    totalInputTokens,   \* line 273
    totalOutputTokens,  \* line 274
    response,           \* the APIResponse of the current request's last callAPI (line 308)
    toolResults,        \* const toolResults: ToolResult[]             (line 316)
    cur,                \* index in blocks of the block whose runTool is awaited, 0 if none
    sent,               \* the messages serialised into the body of the request in flight
                        \* (line 243), <<>> while no request is in flight
    calls,              \* number of callAPI calls issued so far
    nextId,             \* next tool_use id the remote endpoint hands out
    outcome             \* how the most recent console line was (or is being) handled

(* Exec state: one call of TOOLS.exec *)
VARIABLES
    e_pc,               \* "idle", "draining" (await Promise.all), "awaitExit"
                        \* (await proc.exited), "done"
    timeoutArg,         \* args.timeout as received
    timeoutMs,          \* const timeoutMs                             (line 127)
    output,             \* const output: string[]                      (line 128)
    killed,             \* let killed                                  (line 130)
    timer,              \* timeoutId: "unset", "armed", "fired", "cleared"
    proc,               \* the spawned process: "none", "running", "exited"
    exitCode,           \* proc.exitCode: an integer, or -1 for null (ended by a signal)
    written,            \* per channel: the chunks written so far, in order
    orphans,            \* the command leaves a descendant that holds the pipes open
    pipe,               \* per channel: chunks written and not yet read
    pipeOpen,           \* per channel: the write end is still open
    readerDone,         \* per channel: readStream has returned
    result              \* the string exec returned ("" before it returns)

(* Tool state: calls of runTool on a file system that holds one path *)
VARIABLES
    t_name,             \* name of the most recent runTool call ("" before the first)
    t_args,             \* its args
    t_threw,            \* its handler threw, the fault left TOOLS[name][2]
    t_result,           \* the string runTool returned
    fs,                 \* the file at the path: whether it exists, and its text
    schema              \* what makeSchema() returned last (<<>> before the first call)

ovars == <<pc, messages, stopRequested, totalInputTokens, totalOutputTokens,
           response, toolResults, cur, sent, calls, nextId, outcome>>
evars == <<e_pc, timeoutArg, timeoutMs, output, killed, timer, proc, exitCode,
           written, orphans, pipe, pipeOpen, readerDone, result>>
tvars == <<t_name, t_args, t_threw, t_result, fs, schema>>
vars == <<ovars, evars, tvars>>

----------------------------------------------------------------------------
(* Console lines and String.prototype.trim *)

\* A line is a sequence of tokens; " " is white space.
Lines == { <<>>, <<" ">>, <<"/q">>, <<"exit">>, <<"/c">>, <<" ", "/c", " ">>,
           <<"hi">>, <<" ", "hi">> }

RECURSIVE TrimStart(_)
TrimStart(s) == IF s # <<>> /\ Head(s) = " " THEN TrimStart(Tail(s)) ELSE s

RECURSIVE TrimEnd(_)
TrimEnd(s) ==
    IF s # <<>> /\ s[Len(s)] = " " THEN TrimEnd(SubSeq(s, 1, Len(s) - 1)) ELSE s

Trim(s) == TrimEnd(TrimStart(s))

----------------------------------------------------------------------------
(* Content blocks, tool results, turns *)

\* ContentBlock (lines 20-26).  An absent or empty (falsy) field is "" for
\* text and name, 0 for id and FALSE for input.
TextBlock(t) ==
    [type |-> "text", text |-> t, id |-> 0, name |-> "", input |-> FALSE]
ToolUse(id, name, hasInput) ==
    [type |-> "tool_use", text |-> "", id |-> id, name |-> name, input |-> hasInput]

\* ToolResult (lines 33-37, built at line 325)
ToolResult(id, content) ==
    [type |-> "tool_result", tool_use_id |-> id, content |-> content]

\* Message (lines 28-31): content is a string (text) or an array (segs)
TextTurn(role, text) == [role |-> role, text |-> text, segs |-> <<>>]
SegTurn(role, segs) == [role |-> role, text |-> <<>>, segs |-> segs]

\* usage of an APIResponse (lines 42-45); absent usage is the falsy NoUsage
NoUsage == [present |-> FALSE, input_tokens |-> 0, output_tokens |-> 0]
Usage(i, o) == [present |-> TRUE, input_tokens |-> i, output_tokens |-> o]

----------------------------------------------------------------------------
(* The remote endpoint: what callAPI may return *)

\* shapes of one content block: a text block, a tool_use block, and a
\* tool_use block that carries no id
BlockShapes == {"text", "read", "noid"}

RECURSIVE SeqsUpTo(_, _)
SeqsUpTo(S, n) ==
    IF n = 0 THEN { <<>> }
    ELSE LET shorter == SeqsUpTo(S, n - 1)
         IN  shorter \cup { Append(q, x) : q \in { r \in shorter : Len(r) = n - 1 }, x \in S }

MkBlock(shape, id) ==
    CASE shape = "text" -> TextBlock("t")
      [] shape = "read" -> ToolUse(id, "read", TRUE)
      [] shape = "noid" -> ToolUse(0, "read", TRUE)

\* the endpoint gives every tool_use block an id of its own
MkBlocks(shapes, base) == [k \in 1..Len(shapes) |-> MkBlock(shapes[k], base + k - 1)]

Usages == { NoUsage, Usage(2, 1) }

\* no response held: before the first callAPI of a request returns
NoResponse == [content |-> <<>>, usage |-> NoUsage]

----------------------------------------------------------------------------
(* runTool (lines 214-220) *)

ToolNames == {"read", "write", "edit", "glob", "grep", "exec", "list",
              "delete", "move", "copy"}

\* what a handler TOOLS[name][2](args) does: it returns a text, or throws an
\* error whose string form `${error}` is the text
HandlerOutcomes == { [threw |-> FALSE, text |-> "ok"],
                     [threw |-> TRUE, text |-> "Error: path parameter is required"] }

\* TOOLS is an object literal: TOOLS[name] also finds what Object.prototype
\* holds under the name
InheritedNames == {"constructor", "hasOwnProperty", "toString", "valueOf", "__proto__"}

\* lines 214-220; h is what the handler does.  Under an inherited name
\* TOOLS[name] is truthy and TOOLS[name][2] is undefined, and the call of it
\* throws a TypeError that the catch turns into text
RunTool(name, h) ==
    IF name \in ToolNames
    THEN IF h.threw THEN "error: " \o h.text ELSE h.text
    ELSE IF name \in InheritedNames
         THEN "error: TypeError: TOOLS[name][2] is not a function"
         ELSE "error: unknown tool " \o name

----------------------------------------------------------------------------
(* main (lines 266-345) *)

\* line 319 without its test of block.id
IsDispatchedAnyId(block) ==
    block.type = "tool_use" /\ block.name # "" /\ block.input

\* line 319: block.type === "tool_use" && block.name && block.input && block.id
IsDispatched(block) ==
    block.type = "tool_use" /\ block.name # "" /\ block.input /\ block.id # 0

\* line 317 walking the blocks from the last one down
NextDispatchLastFirst(blocks, i) ==
    LET later == { j \in (i + 1)..Len(blocks) : IsDispatched(blocks[j]) }
    IN  IF later = {} THEN 0 ELSE CHOOSE j \in later : \A k \in later : j >= k

\* the for loop of line 317 from block i on: the first block after i that is
\* handed to runTool, 0 when the loop runs to its end
NextDispatch(blocks, i) ==
    LET later == { j \in (i + 1)..Len(blocks) : IsDispatched(blocks[j]) }
    IN  IF later = {} THEN 0 ELSE CHOOSE j \in later : \A k \in later : j <= k

\* line 306 as while (true)
LoopForever(stop) == TRUE

\* line 306: while (!stopRequested)
LoopContinues(stop) == ~stop

\* lines 329-332 with the flag tested before line 331: a cancelled round
\* appends the assistant turn only
AdvanceDropsResults(blocks, i, res) ==
    LET j == NextDispatch(blocks, i)
        withAssistant == Append(messages, SegTurn("assistant", blocks))
        withResults == Append(withAssistant, SegTurn("user", res))
    IN  IF j # 0
        THEN /\ pc' = "tool"
             /\ cur' = j
             /\ toolResults' = res
             /\ sent' = <<>>
             /\ UNCHANGED <<messages, calls, outcome>>
        ELSE /\ cur' = 0
             /\ toolResults' = <<>>
             /\ IF res = <<>>
                THEN /\ messages' = withAssistant
                     /\ pc' = "idle"
                     /\ outcome' = "final"
                     /\ sent' = <<>>
                     /\ UNCHANGED calls
                ELSE IF LoopContinues(stopRequested)
                     THEN /\ calls < MaxCalls
                          /\ messages' = withResults
                          /\ pc' = "calling"
                          /\ sent' = withResults
                          /\ calls' = calls + 1
                          /\ UNCHANGED outcome
                     ELSE /\ messages' = withAssistant
                          /\ pc' = "idle"
                          /\ outcome' = "cancelled"
                          /\ sent' = <<>>
                          /\ UNCHANGED calls

\* lines 329-332 with an unconditional break after line 331
AdvanceOneRound(blocks, i, res) ==
    LET j == NextDispatch(blocks, i)
        withAssistant == Append(messages, SegTurn("assistant", blocks))
        withResults == Append(withAssistant, SegTurn("user", res))
    IN  IF j # 0
        THEN /\ pc' = "tool"
             /\ cur' = j
             /\ toolResults' = res
             /\ sent' = <<>>
             /\ UNCHANGED <<messages, calls, outcome>>
        ELSE /\ cur' = 0
             /\ toolResults' = <<>>
             /\ messages' = IF res = <<>> THEN withAssistant ELSE withResults
             /\ pc' = "idle"
             /\ outcome' = "final"
             /\ sent' = <<>>
             /\ UNCHANGED calls

\* lines 317-332 from block i on, with the results collected so far: either
\* the next runTool is awaited, or the round ends (329-331) and the while
\* condition is evaluated again
Advance(blocks, i, res) ==
    LET j == NextDispatch(blocks, i)
        withAssistant == Append(messages, SegTurn("assistant", blocks))
        withResults == Append(withAssistant, SegTurn("user", res))
    IN  IF j # 0
        THEN /\ pc' = "tool"
             /\ cur' = j
             /\ toolResults' = res
             /\ sent' = <<>>
             /\ UNCHANGED <<messages, calls, outcome>>
        ELSE /\ cur' = 0
             /\ toolResults' = <<>>
             /\ IF res = <<>>
                THEN /\ messages' = withAssistant
                     /\ pc' = "idle"
                     /\ outcome' = "final"
                     /\ sent' = <<>>
                     /\ UNCHANGED calls
                ELSE /\ messages' = withResults
                     /\ IF LoopContinues(stopRequested)
                        THEN /\ calls < MaxCalls
                             /\ pc' = "calling"
                             /\ sent' = withResults
                             /\ calls' = calls + 1
                             /\ UNCHANGED outcome
                        ELSE /\ pc' = "idle"
                             /\ outcome' = "cancelled"
                             /\ sent' = <<>>
                             /\ UNCHANGED calls

\* lines 312-313 with = in place of +=
AccumulateAssign(total, present, n) == IF present THEN n ELSE total

\* lines 311-314: if (usage) total += usage.<counter>
Accumulate(total, present, n) == IF present THEN total + n ELSE total

\* lines 283-286: /q or exit
Quit ==
    /\ pc = "idle"
    /\ \E line \in Lines : Trim(line) \in { <<"/q">>, <<"exit">> }
    /\ pc' = "done"
    /\ UNCHANGED <<messages, stopRequested, totalInputTokens, totalOutputTokens,
                   response, toolResults, cur, sent, calls, nextId, outcome>>
    /\ UNCHANGED evars
    /\ UNCHANGED tvars

\* lines 287-295 without lines 289-290
ClearKeepsTotals ==
    /\ pc = "idle"
    /\ \E line \in Lines : Trim(line) = <<"/c">>
    /\ messages' = <<>>
    /\ outcome' = "cleared"
    /\ response' = NoResponse
    /\ UNCHANGED <<pc, stopRequested, totalInputTokens, totalOutputTokens,
                   toolResults, cur, sent, calls, nextId>>
    /\ UNCHANGED evars
    /\ UNCHANGED tvars

\* lines 287-295: /c
Clear ==
    /\ pc = "idle"
    /\ \E line \in Lines : Trim(line) = <<"/c">>
    /\ messages' = <<>>
    /\ totalInputTokens' = 0
    /\ totalOutputTokens' = 0
    /\ outcome' = "cleared"
    /\ response' = NoResponse
    /\ UNCHANGED <<pc, stopRequested, toolResults, cur, sent, calls, nextId>>
    /\ UNCHANGED evars
    /\ UNCHANGED tvars

\* lines 296-300: an empty line
EmptyLine ==
    /\ pc = "idle"
    /\ \E line \in Lines : Trim(line) = <<>>
    /\ UNCHANGED <<pc, messages, stopRequested, totalInputTokens, totalOutputTokens,
                   response, toolResults, cur, sent, calls, nextId, outcome>>
    /\ UNCHANGED evars
    /\ UNCHANGED tvars

\* lines 302-308 without the stopRequested = false of line 304
UtteranceKeepsFlag ==
    /\ pc = "idle"
    /\ calls < MaxCalls
    /\ \E line \in Lines :
         LET userInput == Trim(line)
             pushed == Append(messages, TextTurn("user", userInput))
         IN  /\ userInput \notin { <<"/q">>, <<"exit">>, <<"/c">>, <<>> }
             /\ messages' = pushed
             /\ UNCHANGED stopRequested
             /\ IF LoopContinues(stopRequested)
                THEN pc' = "calling" /\ sent' = pushed /\ calls' = calls + 1
                     /\ outcome' = "pending"
                ELSE pc' = "idle" /\ outcome' = "cancelled" /\ UNCHANGED <<sent, calls>>
    /\ response' = NoResponse
    /\ UNCHANGED <<totalInputTokens, totalOutputTokens, toolResults, cur, nextId>>
    /\ UNCHANGED evars
    /\ UNCHANGED tvars

\* lines 302-308: any other line starts a request and issues the first callAPI
Utterance ==
    /\ pc = "idle"
    /\ calls < MaxCalls
    /\ \E line \in Lines :
         LET userInput == Trim(line)
             pushed == Append(messages, TextTurn("user", userInput))
         IN  /\ userInput \notin { <<"/q">>, <<"exit">>, <<"/c">>, <<>> }
             /\ messages' = pushed
             /\ stopRequested' = FALSE
             /\ IF LoopContinues(FALSE)
                THEN pc' = "calling" /\ sent' = pushed /\ calls' = calls + 1
                     /\ outcome' = "pending"
                ELSE pc' = "idle" /\ outcome' = "cancelled" /\ UNCHANGED <<sent, calls>>
    /\ response' = NoResponse
    /\ UNCHANGED <<totalInputTokens, totalOutputTokens, toolResults, cur, nextId>>
    /\ UNCHANGED evars
    /\ UNCHANGED tvars

\* lines 308-327: callAPI returns a response; the usage is added and the
\* blocks are walked up to the first runTool
TransportReturn ==
    /\ pc = "calling"
    /\ \E shapes \in SeqsUpTo(BlockShapes, MaxBlocks - (nextId - 1)), usage \in Usages :
         LET blocks == MkBlocks(shapes, nextId)
         IN  /\ response' = [content |-> blocks, usage |-> usage]
             /\ nextId' = nextId + Len(shapes)
             /\ totalInputTokens' = Accumulate(totalInputTokens, usage.present, usage.input_tokens)
             /\ totalOutputTokens' = Accumulate(totalOutputTokens, usage.present, usage.output_tokens)
             /\ Advance(blocks, 0, <<>>)
    /\ UNCHANGED stopRequested
    /\ UNCHANGED evars
    /\ UNCHANGED tvars

\* lines 338-340 with a catch that takes the last turn back
TransportFaultRollback ==
    /\ pc = "calling"
    /\ pc' = "idle"
    /\ outcome' = "fault"
    /\ sent' = <<>>
    /\ messages' = SubSeq(messages, 1, Len(messages) - 1)
    /\ UNCHANGED <<stopRequested, totalInputTokens, totalOutputTokens,
                   response, toolResults, cur, calls, nextId>>
    /\ UNCHANGED evars
    /\ UNCHANGED tvars

\* lines 245-248 and 338-340: callAPI throws; the catch of main prints the error
TransportFault ==
    /\ pc = "calling"
    /\ pc' = "idle"
    /\ outcome' = "fault"
    /\ sent' = <<>>
    /\ UNCHANGED <<messages, stopRequested, totalInputTokens, totalOutputTokens,
                   response, toolResults, cur, calls, nextId>>
    /\ UNCHANGED evars
    /\ UNCHANGED tvars

\* lines 321-327: the awaited runTool returns; its result is collected and
\* the for loop goes on
ToolReturn ==
    /\ pc = "tool"
    /\ \E h \in HandlerOutcomes :
         LET block == response.content[cur]
             res == RunTool(block.name, h)
         IN  Advance(response.content, cur, Append(toolResults, ToolResult(block.id, res)))
    /\ UNCHANGED <<stopRequested, totalInputTokens, totalOutputTokens, response, nextId>>
    /\ UNCHANGED evars
    /\ UNCHANGED tvars

\* lines 258-260 with a handler that also abandons the round in flight
SIGINTAborts ==
    /\ pc # "done"
    /\ stopRequested' = TRUE
    /\ IF pc \in {"calling", "tool"}
       THEN /\ pc' = "idle"
            /\ outcome' = "cancelled"
            /\ cur' = 0
            /\ toolResults' = <<>>
            /\ sent' = <<>>
       ELSE UNCHANGED <<pc, outcome, cur, toolResults, sent>>
    /\ UNCHANGED <<messages, totalInputTokens, totalOutputTokens, response, calls, nextId>>
    /\ UNCHANGED evars
    /\ UNCHANGED tvars

\* lines 258-260
SIGINT ==
    /\ pc # "done"
    /\ stopRequested' = TRUE
    /\ UNCHANGED <<pc, messages, totalInputTokens, totalOutputTokens, response,
                   toolResults, cur, sent, calls, nextId, outcome>>
    /\ UNCHANGED evars
    /\ UNCHANGED tvars

\* lines 261-264
SIGTERM ==
    /\ pc # "done"
    /\ pc' = "done"
    /\ UNCHANGED <<messages, stopRequested, totalInputTokens, totalOutputTokens,
                   response, toolResults, cur, sent, calls, nextId, outcome>>
    /\ UNCHANGED evars
    /\ UNCHANGED tvars

----------------------------------------------------------------------------
(* JavaScript values and numbers, as far as args.timeout needs them *)

\* a JSON value the model may put into args.timeout, or none (undefined)
Undefined == [t |-> "undefined", v |-> 0]
Num(n) == [t |-> "number", v |-> n]
\* a string that is no number, such as "soon"
OtherString == [t |-> "string", v |-> 0]

\* a number: NaN or an integer
NaN == [nan |-> TRUE, v |-> 0]
Number(n) == [nan |-> FALSE, v |-> n]

\* ToNumber, the coercion Math.max applies to its arguments
ToNumber(a) ==
    CASE a.t = "number" -> Number(a.v)
      [] a.t = "undefined" -> NaN
      [] a.t = "string" -> NaN

MathMax(x, y) ==
    IF x.nan \/ y.nan THEN NaN ELSE IF x.v >= y.v THEN x ELSE y

MathMin(x, y) ==
    IF x.nan \/ y.nan THEN NaN ELSE IF x.v <= y.v THEN x ELSE y

\* `${n}`
NumStr(x) == IF x.nan THEN "NaN" ELSE ToString(x.v)

----------------------------------------------------------------------------
(* TOOLS.exec (lines 123-161) *)

MinTimeoutMs == 1000
MaxTimeoutMs == 300000

\* line 127
ClampTimeout(a) ==
    MathMin(MathMax(ToNumber(a), Number(MinTimeoutMs)), Number(MaxTimeoutMs))

TimeoutArgs == { Num(0 - 5), Num(0), Num(50), Num(5000), Num(MaxTimeoutMs + 1),
                 Undefined, OtherString }

Channels == {"stdout", "stderr"}

\* lines 153-154
Prefix(ch) == IF ch = "stdout" THEN "[stdout] " ELSE "[stderr] "

\* a chunk is a sequence of bytes: 97 "a", 98 "b", 101 "e", 10 line feed
ChunksOf(ch) ==
    IF ch = "stdout" THEN { <<97, 10>>, <<98>>, <<10, 98, 10>> } ELSE { <<101, 10>> }

\* line 142: decoder.decode(value, {stream: true}) on single-byte characters
CharOf(b) ==
    CASE b = 10 -> "\n"
      [] b = 97 -> "a"
      [] b = 98 -> "b"
      [] b = 101 -> "e"

Decode(chunk) == [k \in 1..Len(chunk) |-> CharOf(chunk[k])]

\* text.split('\n'): the pieces between line feeds, empty pieces included
RECURSIVE SplitLF(_, _, _)
SplitLF(chars, piece, acc) ==
    IF chars = <<>> THEN Append(acc, piece)
    ELSE IF Head(chars) = "\n"
         THEN SplitLF(Tail(chars), "", Append(acc, piece))
         ELSE SplitLF(Tail(chars), piece \o Head(chars), acc)

NonEmpty(l) == l # ""

\* line 143: text.split('\n').filter(l => l)
LinesOf(text) == SelectSeq(SplitLF(text, "", <<>>), NonEmpty)

\* lines 143-146: the entries one chunk adds to output
Entries(ch, chunk) ==
    LET ls == LinesOf(Decode(chunk))
    IN  [k \in 1..Len(ls) |-> Prefix(ch) \o ls[k]]

\* output.join('\n')
RECURSIVE JoinLF(_)
JoinLF(ls) ==
    IF ls = <<>> THEN ""
    ELSE IF Len(ls) = 1 THEN ls[1]
         ELSE ls[1] \o "\n" \o JoinLF(Tail(ls))

\* `${proc.exitCode}`: a negative code stands for null (ended by a signal)
CodeStr(c) == IF c < 0 THEN "null" ELSE ToString(c)

\* lines 159-160 without the || "(no output)" of line 159
FormatResultNoSentinel(out, wasKilled, ms, code) ==
    LET res == JoinLF(out)
    IN  IF wasKilled
        THEN res \o "\n[TIMEOUT after " \o NumStr(ms) \o "ms]"
        ELSE res \o "\n[exit: " \o CodeStr(code) \o "]"

\* lines 159-160
FormatResult(out, wasKilled, ms, code) ==
    LET joined == JoinLF(out)
        res == IF joined = "" THEN "(no output)" ELSE joined
    IN  IF wasKilled
        THEN res \o "\n[TIMEOUT after " \o NumStr(ms) \o "ms]"
        ELSE res \o "\n[exit: " \o CodeStr(code) \o "]"

ExitCodes == {0, 1}

\* the kernel closes the process's ends of the pipes when it ends, unless a
\* descendant still holds them
PipesAfterEnd == IF orphans THEN pipeOpen ELSE [ch \in Channels |-> FALSE]

\* lines 127-134 and 152-154: clamp, spawn, arm the timer, start both drains
ExecStart ==
    /\ e_pc = "idle"
    /\ \E a \in TimeoutArgs, o \in BOOLEAN :
         /\ timeoutArg' = a
         /\ timeoutMs' = ClampTimeout(a)
         /\ orphans' = o
    /\ output' = <<>>
    /\ proc' = "running"
    /\ killed' = FALSE
    /\ timer' = "armed"
    /\ pipeOpen' = [ch \in Channels |-> TRUE]
    /\ e_pc' = "draining"
    /\ UNCHANGED <<exitCode, written, pipe, readerDone, result>>
    /\ UNCHANGED ovars
    /\ UNCHANGED tvars

\* the process (or a descendant of it) writes a chunk to one of its pipes
ProcWrite(ch) ==
    /\ pipeOpen[ch]
    /\ proc = "running" \/ orphans
    /\ Len(written["stdout"]) + Len(written["stderr"]) < MaxChunks
    /\ \E chunk \in ChunksOf(ch) :
         /\ pipe' = [pipe EXCEPT ![ch] = Append(@, chunk)]
         /\ written' = [written EXCEPT ![ch] = Append(@, chunk)]
    /\ UNCHANGED <<e_pc, timeoutArg, timeoutMs, output, killed, timer, proc,
                   exitCode, orphans, pipeOpen, readerDone, result>>
    /\ UNCHANGED ovars
    /\ UNCHANGED tvars

\* the last holder of a pipe's write end closes it
PipeClose(ch) ==
    /\ pipeOpen[ch]
    /\ proc = "running" \/ orphans
    /\ pipeOpen' = [pipeOpen EXCEPT ![ch] = FALSE]
    /\ UNCHANGED <<e_pc, timeoutArg, timeoutMs, output, killed, timer, proc,
                   exitCode, written, orphans, pipe, readerDone, result>>
    /\ UNCHANGED ovars
    /\ UNCHANGED tvars

\* the process ends on its own, with an exit code or by a signal
ProcExit ==
    /\ proc = "running"
    /\ proc' = "exited"
    /\ \E code \in ExitCodes : exitCode' = code
    /\ pipeOpen' = PipesAfterEnd
    /\ UNCHANGED <<e_pc, timeoutArg, timeoutMs, output, killed, timer, written,
                   orphans, pipe, readerDone, result>>
    /\ UNCHANGED ovars
    /\ UNCHANGED tvars

\* lines 131-134 without the killed = true of line 132
TimerFireKeepsFlag ==
    /\ timer = "armed"
    /\ timer' = "fired"
    /\ \/ /\ proc = "running"
          /\ proc' = "exited"
          /\ exitCode' = 0 - 1
          /\ pipeOpen' = PipesAfterEnd
       \/ UNCHANGED <<proc, exitCode, pipeOpen>>
    /\ UNCHANGED <<e_pc, timeoutArg, timeoutMs, output, killed, written, orphans,
                   pipe, readerDone, result>>
    /\ UNCHANGED ovars
    /\ UNCHANGED tvars

\* lines 131-134: the timer callback; proc.kill() sends SIGTERM, which ends a
\* running process unless it ignores the signal, and is a no-op otherwise
TimerFire ==
    /\ timer = "armed"
    /\ timer' = "fired"
    /\ killed' = TRUE
    /\ \/ /\ proc = "running"
          /\ proc' = "exited"
          /\ exitCode' = 0 - 1
          /\ pipeOpen' = PipesAfterEnd
       \/ UNCHANGED <<proc, exitCode, pipeOpen>>
    /\ UNCHANGED <<e_pc, timeoutArg, timeoutMs, output, written, orphans, pipe,
                   readerDone, result>>
    /\ UNCHANGED ovars
    /\ UNCHANGED tvars

\* lines 140-146 with unshift in place of push at line 145
DrainReadUnshift(ch) ==
    /\ e_pc = "draining"
    /\ ~readerDone[ch]
    /\ pipe[ch] # <<>>
    /\ output' = Entries(ch, Head(pipe[ch])) \o output
    /\ pipe' = [pipe EXCEPT ![ch] = Tail(@)]
    /\ UNCHANGED <<e_pc, timeoutArg, timeoutMs, killed, timer, proc, exitCode,
                   written, orphans, pipeOpen, readerDone, result>>
    /\ UNCHANGED ovars
    /\ UNCHANGED tvars

\* lines 140-146: reader.read() yields a chunk; its lines are pushed
DrainRead(ch) ==
    /\ e_pc = "draining"
    /\ ~readerDone[ch]
    /\ pipe[ch] # <<>>
    /\ output' = output \o Entries(ch, Head(pipe[ch]))
    /\ pipe' = [pipe EXCEPT ![ch] = Tail(@)]
    /\ UNCHANGED <<e_pc, timeoutArg, timeoutMs, killed, timer, proc, exitCode,
                   written, orphans, pipeOpen, readerDone, result>>
    /\ UNCHANGED ovars
    /\ UNCHANGED tvars

\* lines 157-160 once proc.exited has resolved: disarm the timer, form the result
Finish ==
    /\ e_pc' = "done"
    /\ timer' = IF timer = "armed" THEN "cleared" ELSE timer
    /\ result' = FormatResult(output, killed, timeoutMs, exitCode)

\* Promise.all of line 152 resolves when the second drain returns; if the
\* process has ended by then, line 157 does not suspend and lines 158-160 follow
\* without another task (a timer callback) running in between
AfterDrain(ch) ==
    IF \A other \in Channels \ {ch} : readerDone[other]
    THEN IF proc = "exited"
         THEN Finish
         ELSE e_pc' = "awaitExit" /\ UNCHANGED <<timer, result>>
    ELSE UNCHANGED <<e_pc, timer, result>>

\* line 141: reader.read() reports done, the channel is closed and empty
DrainEnd(ch) ==
    /\ e_pc = "draining"
    /\ ~readerDone[ch]
    /\ pipe[ch] = <<>>
    /\ ~pipeOpen[ch]
    /\ readerDone' = [readerDone EXCEPT ![ch] = TRUE]
    /\ AfterDrain(ch)
    /\ UNCHANGED <<timeoutArg, timeoutMs, output, killed, proc, exitCode, written,
                   orphans, pipe, pipeOpen>>
    /\ UNCHANGED ovars
    /\ UNCHANGED tvars

\* lines 148-149: reader.read() throws; the drain swallows the error and returns
DrainFault(ch) ==
    /\ e_pc = "draining"
    /\ ~readerDone[ch]
    /\ readerDone' = [readerDone EXCEPT ![ch] = TRUE]
    /\ AfterDrain(ch)
    /\ UNCHANGED <<timeoutArg, timeoutMs, output, killed, proc, exitCode, written,
                   orphans, pipe, pipeOpen>>
    /\ UNCHANGED ovars
    /\ UNCHANGED tvars

\* line 157 after a suspension: proc.exited resolves
ExitAwaited ==
    /\ e_pc = "awaitExit"
    /\ proc = "exited"
    /\ Finish
    /\ UNCHANGED <<timeoutArg, timeoutMs, output, killed, proc, exitCode, written,
                   orphans, pipe, pipeOpen, readerDone>>
    /\ UNCHANGED ovars
    /\ UNCHANGED tvars

----------------------------------------------------------------------------
(* Strings as sequences of characters, for the handlers that cut them *)

\* the string of a sequence of characters
RECURSIVE Str(_)
Str(chars) == IF chars = <<>> THEN "" ELSE Head(chars) \o Str(Tail(chars))

StartsWith(text, s) == Len(text) >= Len(s) /\ SubSeq(text, 1, Len(s)) = s

Drop(text, n) == SubSeq(text, n + 1, Len(text))

\* text.includes(s)
Includes(text, s) == \E i \in 0..Len(text) : StartsWith(Drop(text, i), s)

\* text.split(sep), sep not empty: the pieces between the occurrences of sep
\* found from left to right, each search starting after the previous find
RECURSIVE Split(_, _, _, _)
Split(text, sep, piece, acc) ==
    IF text = <<>> THEN Append(acc, piece)
    ELSE IF StartsWith(text, sep)
         THEN Split(Drop(text, Len(sep)), sep, <<>>, Append(acc, piece))
         ELSE Split(Tail(text), sep, Append(piece, Head(text)), acc)

\* pieces.join(sep)
RECURSIVE Join(_, _)
Join(pieces, sep) ==
    IF pieces = <<>> THEN <<>>
    ELSE IF Len(pieces) = 1 THEN pieces[1]
         ELSE pieces[1] \o sep \o Join(Tail(pieces), sep)

\* text.replace(s, new) with a string s that text includes: the first
\* occurrence is replaced
RECURSIVE Replace(_, _, _)
Replace(text, s, new) ==
    IF StartsWith(text, s) THEN new \o Drop(text, Len(s))
    ELSE <<Head(text)>> \o Replace(Tail(text), s, new)

\* text.replaceAll(s, new)
ReplaceAll(text, s, new) == Join(Split(text, s, <<>>, <<>>), new)

\* String(n).padStart(4)
PadStart(str) ==
    CASE Len(str) = 1 -> "   " \o str
      [] Len(str) = 2 -> "  " \o str
      [] Len(str) = 3 -> " " \o str
      [] OTHER -> str

----------------------------------------------------------------------------
(* getPath and the handlers of TOOLS (lines 48-212) on a file system that
   holds the one path "f" *)

NoFile == [exists |-> FALSE, text |-> <<>>]
File(text) == [exists |-> TRUE, text |-> text]

\* file contents the model writes, texts it asks edit to replace, and
\* replacements
Texts == { <<"a">>, <<"b", "a">>, <<"a", "a", "a">>, <<"a", "b", "a", "b", "a">>,
           <<"a", "\n", "b">> }
OldStrings == { <<"a">>, <<"a", "a">>, <<"c">> }
NewStrings == { <<"b">>, <<>> }

\* ToolArgs (line 18): path is whether args.path (or args.file_path) is
\* there, badPattern whether args.pattern is no regular expression
Args(path, content, old, new, all, badPattern) ==
    [path |-> path, content |-> content, old |-> old, new |-> new, all |-> all,
     badPattern |-> badPattern]

NoArgs == Args(FALSE, <<>>, <<>>, <<>>, FALSE, FALSE)
PathOnly == Args(TRUE, <<>>, <<>>, <<>>, FALSE, FALSE)

\* the argument maps the model passes to a capability
ArgsOf(name) ==
    CASE name = "write" ->
           { Args(p, c, <<>>, <<>>, FALSE, FALSE) : p \in BOOLEAN, c \in Texts }
      [] name = "edit" ->
           { Args(p, <<>>, o, n, a, FALSE) :
               p \in BOOLEAN, o \in OldStrings, n \in NewStrings, a \in BOOLEAN }
      [] name = "grep" -> { Args(FALSE, <<>>, <<>>, <<>>, FALSE, b) : b \in BOOLEAN }
      [] name \in {"read", "list", "delete", "glob"} -> { NoArgs, PathOnly }
      [] OTHER -> { NoArgs }

\* a handler returns a text, or throws an error with the string form text;
\* fs is the file it leaves
Returns(text, f) == [threw |-> FALSE, text |-> text, fs |-> f]
Throws(text, f) == [threw |-> TRUE, text |-> text, fs |-> f]

\* lines 48-52 with a default path in place of the throw of line 50
GetPathDefaults(args) == FALSE

\* lines 48-52: getPath throws when args holds no path
GetPathThrows(args) == ~args.path

PathRequired == "path parameter is required"
NoEntry(call) == "ENOENT: no such file or directory, " \o call \o " 'f'"

\* lines 57-62, called without offset and limit
Read(args, f) ==
    IF GetPathThrows(args) THEN Throws("Error: " \o PathRequired, f)
    ELSE IF ~f.exists THEN Throws("Error: " \o NoEntry("open"), f)
    ELSE LET lines == SplitLF(f.text, "", <<>>)
         IN  Returns(JoinLF([k \in 1..Len(lines) |->
                               PadStart(ToString(k)) \o "| " \o lines[k]]), f)

\* lines 64-67
Write(args, f) ==
    IF GetPathThrows(args) THEN Throws("Error: " \o PathRequired, f)
    ELSE Returns("ok", File(args.content))

\* lines 69-82 with the check of line 79 dropped
EditReplacesFirst(args, f) ==
    IF GetPathThrows(args) THEN Throws("Error: " \o PathRequired, f)
    ELSE IF ~f.exists THEN Throws("Error: " \o NoEntry("open"), f)
    ELSE IF ~Includes(f.text, args.old) THEN Returns("error: old_string not found", f)
    ELSE Returns("ok", File(IF args.all
                            THEN ReplaceAll(f.text, args.old, args.new)
                            ELSE Replace(f.text, args.old, args.new)))

\* lines 69-82
Edit(args, f) ==
    IF GetPathThrows(args) THEN Throws("Error: " \o PathRequired, f)
    ELSE IF ~f.exists THEN Throws("Error: " \o NoEntry("open"), f)
    ELSE IF ~Includes(f.text, args.old) THEN Returns("error: old_string not found", f)
    ELSE LET count == Len(Split(f.text, args.old, <<>>, <<>>)) - 1
         IN  IF ~args.all /\ count > 1
             THEN Returns("error: old_string appears " \o ToString(count)
                            \o " times, use all=true", f)
             ELSE Returns("ok", File(IF args.all
                                     THEN ReplaceAll(f.text, args.old, args.new)
                                     ELSE Replace(f.text, args.old, args.new)))

\* lines 84-98, with the pattern "*" and cwd the directory of the path
Glob(args, f) == Returns(IF f.exists THEN "/f" ELSE "none", f)

\* lines 100-120, with a pattern that matches no line of the file
Grep(args, f) ==
    IF args.badPattern
    THEN Throws("SyntaxError: Invalid regular expression: missing )", f)
    ELSE Returns("none", f)

\* lines 123-161, with a command that writes nothing and exits with code 0
Exec(args, f) == Returns(FormatResult(<<>>, FALSE, Number(MinTimeoutMs), 0), f)

\* lines 163-179: the path is a file or nothing, readdir fails on it, and the
\* handler's own catch returns the message
List(args, f) ==
    IF GetPathThrows(args) THEN Returns("error: " \o PathRequired, f)
    ELSE IF f.exists THEN Returns("error: ENOTDIR: not a directory, scandir 'f'", f)
    ELSE Returns("error: " \o NoEntry("scandir"), f)

\* lines 181-190
Delete(args, f) ==
    IF GetPathThrows(args) THEN Returns("error: " \o PathRequired, f)
    ELSE IF ~f.exists THEN Returns("error: " \o NoEntry("stat"), f)
    ELSE Returns("Deleted: f", NoFile)

\* lines 192-199: rename(args.from, args.to), from the path to another one
Move(args, f) ==
    IF f.exists THEN Returns("Moved: f -> g", NoFile)
    ELSE Returns("error: " \o NoEntry("rename"), f)

\* lines 201-211: from the path to another one
Copy(args, f) ==
    IF f.exists THEN Returns("Copied: f -> g", f)
    ELSE Returns("error: " \o NoEntry("stat"), f)

\* TOOLS[name][2](args)
Handler(name, args, f) ==
    CASE name = "read" -> Read(args, f)
      [] name = "write" -> Write(args, f)
      [] name = "edit" -> Edit(args, f)
      [] name = "glob" -> Glob(args, f)
      [] name = "grep" -> Grep(args, f)
      [] name = "exec" -> Exec(args, f)
      [] name = "list" -> List(args, f)
      [] name = "delete" -> Delete(args, f)
      [] name = "move" -> Move(args, f)
      [] name = "copy" -> Copy(args, f)

\* names the remote endpoint may put into a tool_use block: the capabilities
\* and two names that are none
CallNames == ToolNames \cup {"frob", "toString"}

\* lines 214-220: one call of runTool, from the lookup to the returned string
RunToolCall(name) ==
    /\ \E args \in ArgsOf(name) :
         LET h == Handler(name, args, fs)
         IN  /\ t_args' = args
             /\ t_threw' = (name \in ToolNames /\ h.threw)
             /\ t_result' = RunTool(name, h)
             /\ fs' = IF name \in ToolNames THEN h.fs ELSE fs
    /\ t_name' = name
    /\ UNCHANGED schema
    /\ UNCHANGED <<ovars, evars>>

----------------------------------------------------------------------------
(* makeSchema (lines 222-233) *)

\* the declared type of a parameter, as the word and the sentinel after it
Required(word) == <<word>>
Optional(word) == <<word, "?">>

\* Object.entries(TOOLS): the names in the order of the literal
ToolOrder == <<"read", "write", "edit", "glob", "grep", "exec", "list",
               "delete", "move", "copy">>

\* TOOLS[name][0]
Description(name) ==
    CASE name = "read" -> "Read file with line numbers"
      [] name = "write" -> "Write content to file"
      [] name = "edit" -> "Replace old with new in file"
      [] name = "glob" -> "Find files by pattern"
      [] name = "grep" -> "Search files for regex"
      [] name = "exec" -> "Execute shell command with live output and timeout"
      [] name = "list" -> "List directory"
      [] name = "delete" -> "Delete file/directory"
      [] name = "move" -> "Move or rename"
      [] name = "copy" -> "Copy file/directory"

\* TOOLS[name][1]: the parameters in the order of the literal
Params(name) ==
    CASE name = "read" -> << <<"path", Required("string")>>,
                             <<"offset", Optional("number")>>,
                             <<"limit", Optional("number")>> >>
      [] name = "write" -> << <<"path", Required("string")>>,
                              <<"content", Required("string")>> >>
      [] name = "edit" -> << <<"path", Required("string")>>,
                             <<"old", Required("string")>>,
                             <<"new", Required("string")>>,
                             <<"all", Optional("boolean")>> >>
      [] name = "glob" -> << <<"pattern", Required("string")>>,
                             <<"path", Optional("string")>> >>
      [] name = "grep" -> << <<"pattern", Required("string")>>,
                             <<"path", Optional("string")>> >>
      [] name = "exec" -> << <<"command", Required("string")>>,
                             <<"timeout", Required("number")>> >>
      [] name = "list" -> << <<"path", Required("string")>>,
                             <<"recursive", Optional("boolean")>> >>
      [] name = "delete" -> << <<"path", Required("string")>>,
                               <<"recursive", Optional("boolean")>> >>
      [] name = "move" -> << <<"from", Required("string")>>,
                             <<"to", Required("string")>> >>
      [] name = "copy" -> << <<"from", Required("string")>>,
                             <<"to", Required("string")>>,
                             <<"recursive", Optional("boolean")>> >>

\* value.replace("?", ""): the first "?" is taken out
RECURSIVE StripSentinel(_)
StripSentinel(value) ==
    IF value = <<>> THEN <<>>
    ELSE IF Head(value) = "?" THEN Tail(value)
         ELSE <<Head(value)>> \o StripSentinel(Tail(value))

\* value.endsWith("?")
EndsWithSentinel(value) == value # <<>> /\ value[Len(value)] = "?"

\* line 228 without the two replace calls
SchemaTypeKeepsSentinel(value) ==
    IF Str(value) = "number" THEN "integer" ELSE Str(value)

\* line 228
SchemaType(value) ==
    IF Str(StripSentinel(value)) = "number" THEN "integer"
    ELSE Str(StripSentinel(value))

IsRequired(param) == ~EndsWithSentinel(param[2])

\* lines 223-232: the entry of each capability; properties is the object in
\* the order of its entries
MakeSchema ==
    [k \in 1..Len(ToolOrder) |->
        LET name == ToolOrder[k]
            params == Params(name)
            required == SelectSeq(params, IsRequired)
        IN  [name |-> name,
             description |-> Description(name),
             properties |-> [i \in 1..Len(params) |->
                               [key |-> params[i][1], type |-> SchemaType(params[i][2])]],
             required |-> [i \in 1..Len(required) |-> required[i][1]]]]

\* line 243: callAPI builds the schema for the request it sends
MakeSchemaCall ==
    /\ schema' = MakeSchema
    /\ UNCHANGED <<t_name, t_args, t_threw, t_result, fs>>
    /\ UNCHANGED <<ovars, evars>>

----------------------------------------------------------------------------
(* Specifications *)

InitOrch ==
    /\ pc = "idle"
    /\ messages = <<>>
    /\ stopRequested = FALSE
    /\ totalInputTokens = 0
    /\ totalOutputTokens = 0
    /\ response = NoResponse
    /\ toolResults = <<>>
    /\ cur = 0
    /\ sent = <<>>
    /\ calls = 0
    /\ nextId = 1
    /\ outcome = "none"

InitExec ==
    /\ e_pc = "idle"
    /\ timeoutArg = Undefined
    /\ timeoutMs = Number(0)
    /\ output = <<>>
    /\ killed = FALSE
    /\ timer = "unset"
    /\ proc = "none"
    /\ exitCode = 0
    /\ written = [ch \in Channels |-> <<>>]
    /\ orphans = FALSE
    /\ pipe = [ch \in Channels |-> <<>>]
    /\ pipeOpen = [ch \in Channels |-> FALSE]
    /\ readerDone = [ch \in Channels |-> FALSE]
    /\ result = ""

InitTools ==
    /\ t_name = ""
    /\ t_args = NoArgs
    /\ t_threw = FALSE
    /\ t_result = ""
    /\ fs = NoFile
    /\ schema = <<>>

Init == InitOrch /\ InitExec /\ InitTools

Next ==
    \/ Quit
    \/ Clear
    \/ EmptyLine
    \/ Utterance
    \/ TransportReturn
    \/ TransportFault
    \/ ToolReturn
    \/ SIGINT
    \/ SIGTERM

Spec == Init /\ [][Next]_vars

NextExec ==
    \/ ExecStart
    \/ \E ch \in Channels : ProcWrite(ch)
    \/ \E ch \in Channels : PipeClose(ch)
    \/ ProcExit
    \/ TimerFire
    \/ \E ch \in Channels : DrainRead(ch)
    \/ \E ch \in Channels : DrainEnd(ch)
    \/ \E ch \in Channels : DrainFault(ch)
    \/ ExitAwaited

SpecExec == Init /\ [][NextExec]_vars

\* what the event loop guarantees to a call of exec: an armed timer fires
\* (setTimeout, line 131), a drain is resumed when its read has a chunk or the
\* end of the stream to deliver (line 140), and main is resumed when
\* proc.exited has resolved (line 157).  Nothing obliges the command or its
\* descendants to write, to close a pipe or to end.
FairExec ==
    /\ WF_vars(TimerFire)
    /\ \A ch \in Channels : WF_vars(DrainRead(ch)) /\ WF_vars(DrainEnd(ch))
    /\ WF_vars(ExitAwaited)

SpecExecFair == SpecExec /\ FairExec

NextTools ==
    \/ \E name \in CallNames : RunToolCall(name)
    \/ MakeSchemaCall

SpecTools == Init /\ [][NextTools]_vars

----------------------------------------------------------------------------
(* Vocabulary of the properties *)

\* an invocation segment: a tool_use block with its identifier, capability
\* name and argument map
IsInvocation(seg) ==
    seg.type = "tool_use" /\ seg.id # 0 /\ seg.name # "" /\ seg.input

IsResult(seg) == seg.type = "tool_result"

\* positions <<turn, segment>> of a conversation
Positions(msgs) ==
    UNION { { <<t, k>> : k \in 1..Len(msgs[t].segs) } : t \in 1..Len(msgs) }

SegAt(msgs, p) == msgs[p[1]].segs[p[2]]

InvocationsIn(msgs) == { p \in Positions(msgs) : IsInvocation(SegAt(msgs, p)) }
ResultsIn(msgs) == { p \in Positions(msgs) : IsResult(SegAt(msgs, p)) }

SameId(msgs, i, r) == SegAt(msgs, r).tool_use_id = SegAt(msgs, i).id

\* every invocation has exactly one result, in the turn that follows its own,
\* and every result has exactly one invocation
Paired(msgs) ==
    /\ \A i \in InvocationsIn(msgs) :
         /\ Cardinality({ r \in ResultsIn(msgs) : SameId(msgs, i, r) }) = 1
         /\ \A r \in ResultsIn(msgs) : SameId(msgs, i, r) => r[1] = i[1] + 1
    /\ \A r \in ResultsIn(msgs) :
         Cardinality({ i \in InvocationsIn(msgs) : SameId(msgs, i, r) }) = 1
    /\ Cardinality(InvocationsIn(msgs)) = Cardinality(ResultsIn(msgs))

\* identifiers of the invocation segments of a response, in segment order
InvocationIds(blocks) ==
    LET inv == SelectSeq(blocks, IsInvocation)
    IN  [k \in 1..Len(inv) |-> inv[k].id]

\* identifiers the result segments carry, in order
ResultIds(res) == [k \in 1..Len(res) |-> res[k].tool_use_id]

\* index of the first invocation segment after block i, 0 if there is none
InvocationAfter(blocks, i) ==
    IF \E j \in (i + 1)..Len(blocks) : IsInvocation(blocks[j])
    THEN CHOOSE j \in (i + 1)..Len(blocks) :
            /\ IsInvocation(blocks[j])
            /\ \A k \in (i + 1)..(j - 1) : ~IsInvocation(blocks[k])
    ELSE 0

IsPrefix(a, b) == Len(a) <= Len(b) /\ SubSeq(b, 1, Len(a)) = a

UsageIn(r) == IF r.usage.present THEN r.usage.input_tokens ELSE 0
UsageOut(r) == IF r.usage.present THEN r.usage.output_tokens ELSE 0

----------------------------------------------------------------------------
(* Properties of the orchestrator, checked under Spec *)

\* C1: whenever main is idle or a transport call is in flight, every
\* invocation segment of the conversation (and of the conversation sent) has
\* exactly one result segment with its identifier, every result segment has
\* its invocation, and the two counts are equal.
C1_InvocationsPaired ==
    pc \in {"idle", "calling"} => Paired(messages) /\ Paired(sent)

\* a request was cancelled after two invocations had been dispatched
C1_Witness ==
    /\ pc = "idle"
    /\ outcome = "cancelled"
    /\ Cardinality(InvocationsIn(messages)) >= 2

\* C2: dispatch is sequential.  While a handler runs it is the handler of one
\* invocation segment, the results collected are those of the invocation
\* segments before it, in segment order, and no transport request is in
\* flight; while a transport call is in flight or main is idle no handler runs.
C2_SequentialDispatch ==
    /\ pc = "tool" =>
         /\ cur \in 1..Len(response.content)
         /\ IsInvocation(response.content[cur])
         /\ ResultIds(toolResults) = InvocationIds(SubSeq(response.content, 1, cur - 1))
         /\ sent = <<>>
    /\ pc \in {"idle", "calling"} => cur = 0 /\ toolResults = <<>>

\* the second invocation of a response runs after the first has returned
C2_Witness == pc = "tool" /\ Len(toolResults) = 1

\* C3: cancellation is cooperative.  Setting the flag changes nothing else;
\* with the flag set, a returning handler is followed by the next invocation
\* of the response, or by the round's end with a result for every invocation;
\* and a response that arrives with the flag set has its invocations dispatched.
C3_Cooperative ==
    [][ /\ (~stopRequested /\ stopRequested') =>
              UNCHANGED <<pc, messages, response, toolResults, cur, sent, calls>>
        /\ (stopRequested /\ pc = "tool" /\ cur' # cur) =>
              LET nxt == InvocationAfter(response.content, cur)
              IN  IF nxt # 0
                  THEN /\ pc' = "tool"
                       /\ cur' = nxt
                       /\ Len(toolResults') = Len(toolResults) + 1
                  ELSE /\ Len(messages') = Len(messages) + 2
                       /\ messages'[Len(messages') - 1].segs = response.content
                       /\ ResultIds(messages'[Len(messages')].segs)
                            = InvocationIds(response.content)
        /\ (stopRequested /\ pc = "calling" /\ pc' \in {"tool", "idle"}
                /\ outcome' # "fault") =>
              LET first == InvocationAfter(response'.content, 0)
              IN  first # 0 => pc' = "tool" /\ cur' = first
      ]_vars

\* the flag is set and the second invocation of the response is running
C3_Witness == pc = "tool" /\ stopRequested /\ Len(toolResults) = 1

\* C4: with the flag set during a request no transport call is issued, and a
\* handler's return leads to the next handler or to idle; a transport call
\* issued with the flag set comes from idle, on a non-empty utterance that
\* is appended as a user turn and clears the flag.
C4_NoCallAfterCancel ==
    [][ /\ (stopRequested /\ pc \in {"calling", "tool"}) =>
              /\ calls' = calls
              /\ pc = "tool" => pc' \in {"tool", "idle", "done"}
        /\ (stopRequested /\ calls' # calls) =>
              /\ pc = "idle"
              /\ ~stopRequested'
              /\ Len(messages') = Len(messages) + 1
              /\ messages'[Len(messages')].role = "user"
              /\ messages'[Len(messages')].text # <<>>
      ]_vars

\* a request cancelled in its first round is back in idle after one call
C4_Witness ==
    pc = "idle" /\ outcome = "cancelled" /\ calls = 1 /\ stopRequested

\* C5, as stated: after a cancelled round with invocations the conversation
\* ends with the assistant turn.
C5_EndsWithAssistantTurn ==
    (pc = "idle" /\ outcome = "cancelled") =>
        messages[Len(messages)].role = "assistant"

\* C5, amended: after a cancelled round with invocations the conversation
\* ends with the assistant turn followed by the user turn of results, one
\* per invocation; that turn is appended and no request carrying it is sent.
C5_ResultsAppendedNotSent ==
    (pc = "idle" /\ outcome = "cancelled") =>
        /\ Len(messages) >= 2
        /\ messages[Len(messages) - 1].role = "assistant"
        /\ InvocationIds(messages[Len(messages) - 1].segs) # <<>>
        /\ messages[Len(messages)].role = "user"
        /\ ResultIds(messages[Len(messages)].segs)
             = InvocationIds(messages[Len(messages) - 1].segs)
        /\ sent = <<>>

\* a cancelled round whose two results were appended
C5_Witness ==
    /\ pc = "idle"
    /\ outcome = "cancelled"
    /\ Len(messages[Len(messages)].segs) = 2

\* C6: a transport fault returns main to idle with the conversation exactly
\* as it was sent with the failing call; the process goes on.
C6_FaultKeepsConversation ==
    [][ (pc = "calling" /\ outcome' = "fault") =>
            /\ pc' = "idle"
            /\ messages' = messages
            /\ messages' = sent
      ]_vars

\* the second round's call failed: the user turn, the assistant turn and the
\* results turn are still there
C6_Witness == pc = "idle" /\ outcome = "fault" /\ Len(messages) = 3

\* C7: each response that arrives adds its counters to the totals; the totals
\* never decrease, except that the clear command sets both to zero.
C7_UsageTotals ==
    [][ /\ (pc = "calling" /\ pc' \in {"tool", "idle"} /\ outcome' # "fault") =>
              /\ totalInputTokens' = totalInputTokens + UsageIn(response')
              /\ totalOutputTokens' = totalOutputTokens + UsageOut(response')
        /\ \/ /\ totalInputTokens' >= totalInputTokens
              /\ totalOutputTokens' >= totalOutputTokens
           \/ /\ pc = "idle"
              /\ outcome' = "cleared"
              /\ totalInputTokens' = 0
              /\ totalOutputTokens' = 0
      ]_vars

\* the second round failed and the totals hold the usage of two responses
C7_Witness ==
    /\ pc = "idle"
    /\ calls = 2
    /\ totalInputTokens = 4
    /\ totalOutputTokens = 2

\* C8: clear empties the conversation and zeroes both totals and main stays
\* idle; the first call after a clear carries one turn, the user's utterance;
\* any other step leaves the conversation a prefix of what it becomes.
C8_ClearAndAppendOnly ==
    [][ /\ (outcome # "cleared" /\ outcome' = "cleared") =>
              /\ pc = "idle" /\ pc' = "idle"
              /\ messages' = <<>>
              /\ totalInputTokens' = 0
              /\ totalOutputTokens' = 0
        /\ (outcome = "cleared" /\ pc' = "calling") =>
              /\ Len(sent') = 1
              /\ sent'[1].role = "user"
              /\ sent'[1].text # <<>>
              /\ sent'[1].segs = <<>>
              /\ sent' = messages'
        /\ \/ IsPrefix(messages, messages')
           \/ outcome' = "cleared" /\ messages' = <<>>
      ]_vars

\* a first request, a clear, and the call of the next request with one turn
C8_Witness == pc = "calling" /\ calls = 2 /\ Len(sent) = 1

\* a response arrives: callAPI returns and the blocks are walked
Arrives == pc = "calling" /\ pc' \in {"tool", "idle"} /\ outcome' # "fault"

\* C20: a response without invocation segments ends the request: main is idle
\* and no further call is issued; a response with invocation segments has
\* them dispatched, and when the last handler has returned with no
\* cancellation requested, the assistant turn and the result turn are appended
\* and the next call is issued with them; without cancellation or fault main
\* becomes idle on a response without invocation segments only.
C20_LoopTermination ==
    [][ /\ (Arrives /\ InvocationIds(response'.content) = <<>>) =>
              /\ pc' = "idle"
              /\ outcome' = "final"
              /\ calls' = calls
        /\ (Arrives /\ InvocationIds(response'.content) # <<>>) => pc' = "tool"
        /\ (pc = "tool" /\ pc' \notin {"tool", "done"} /\ ~stopRequested) =>
              /\ pc' = "calling"
              /\ calls' = calls + 1
              /\ Len(messages') = Len(messages) + 2
              /\ messages'[Len(messages') - 1] = SegTurn("assistant", response.content)
              /\ messages'[Len(messages')].role = "user"
              /\ ResultIds(messages'[Len(messages')].segs)
                   = InvocationIds(response.content)
              /\ sent' = messages'
        /\ (pc \in {"calling", "tool"} /\ pc' = "idle" /\ ~stopRequested
                /\ outcome' # "fault") =>
              InvocationIds(response'.content) = <<>>
      ]_vars

\* with no cancellation, the second call of a request is in flight and carries
\* the results of the two invocations of the first response
C20_Witness ==
    /\ pc = "calling"
    /\ ~stopRequested
    /\ outcome = "pending"
    /\ Len(sent) = 3
    /\ Len(sent[3].segs) = 2

\* C21: a line read while main is idle that appends a turn appends one user
\* turn with the trimmed, non-empty text that is no command, clears the flag
\* whatever it was, and issues a transport call that carries the turn; a
\* step from idle that issues no call appends no turn and leaves the totals
\* as they are, unless it is the clear command.
C21_UtteranceClearsFlag ==
    [][ /\ (pc = "idle" /\ messages' # messages /\ messages' # <<>>) =>
              /\ Len(messages') = Len(messages) + 1
              /\ SubSeq(messages', 1, Len(messages)) = messages
              /\ messages'[Len(messages')].role = "user"
              /\ messages'[Len(messages')].text
                   \notin { <<>>, <<"/q">>, <<"exit">>, <<"/c">> }
              /\ messages'[Len(messages')].text
                   = Trim(messages'[Len(messages')].text)
              /\ ~stopRequested'
              /\ pc' = "calling"
              /\ calls' = calls + 1
              /\ sent' = messages'
        /\ (pc = "idle" /\ calls' = calls) =>
              \/ /\ messages' = messages
                 /\ totalInputTokens' = totalInputTokens
                 /\ totalOutputTokens' = totalOutputTokens
              \/ outcome' = "cleared" /\ messages' = <<>>
      ]_vars

\* a request was cancelled after its first round, and the next utterance has
\* cleared the flag and issued the second call
C21_Witness ==
    /\ pc = "calling"
    /\ calls = 2
    /\ ~stopRequested
    /\ Len(sent) = 4
    /\ sent[3].role = "user"
    /\ sent[3].segs # <<>>

----------------------------------------------------------------------------
(* Properties of exec, checked under SpecExec *)

\* C9: the bound that arms the timer and is printed in the timeout marker lies
\* in [1000, 300000] whatever args.timeout was.
C9_BoundInRange ==
    e_pc # "idle" =>
        /\ ~timeoutMs.nan
        /\ timeoutMs.v >= MinTimeoutMs
        /\ timeoutMs.v <= MaxTimeoutMs

\* C10: the result is formed once, after the process has ended and both
\* drains have returned; it is not empty and is the transcript joined by line
\* feeds, or (no output) for an empty transcript, followed by one marker line,
\* [exit: <code>] or [TIMEOUT after <bound>ms]; the transcript it was formed
\* from is the final one.
C10_ResultForm ==
    /\ e_pc # "done" => result = ""
    /\ e_pc = "done" =>
         LET body == IF output = <<>> THEN "(no output)" ELSE JoinLF(output)
         IN  /\ Len(result) > 0
             /\ proc = "exited"
             /\ \A ch \in Channels : readerDone[ch]
             /\ timer # "armed"
             /\ result \in
                  { body \o "\n" \o "[exit: " \o CodeStr(exitCode) \o "]",
                    body \o "\n" \o "[TIMEOUT after " \o NumStr(timeoutMs) \o "ms]" }

\* exec has returned a result with two transcript lines
C10_Witness == e_pc = "done" /\ Len(output) = 2

\* the text before the marker line of a result
Body(out) == IF out = <<>> THEN "(no output)" ELSE JoinLF(out)

\* a number brought into [1000, 300000]
Clamped(n) == IF n < 1000 THEN 1000 ELSE IF n > 300000 THEN 300000 ELSE n

C12_FirstWins ==
    [][ /\ (proc = "exited" /\ ~killed) => ~killed'
        /\ (e_pc # "done" /\ e_pc' = "done") =>
              result' = Body(output) \o "\n" \o
                          (IF killed
                           THEN "[TIMEOUT after " \o NumStr(timeoutMs) \o "ms]"
                           ELSE "[exit: " \o CodeStr(exitCode) \o "]")
        /\ e_pc # "idle" => IsPrefix(output, output')
      ]_vars

\* the chunks of a channel the drain has read so far, in the order written
ReadSoFar(ch) == SubSeq(written[ch], 1, Len(written[ch]) - Len(pipe[ch]))

\* the tagged pieces of each chunk a channel can write
PiecesOfChunk ==
    [ch \in Channels |-> [chunk \in ChunksOf(ch) |-> Entries(ch, chunk)]]

\* the tagged pieces a sequence of chunks gives, chunk after chunk
RECURSIVE Pieces(_, _)
Pieces(ch, chunks) ==
    IF chunks = <<>> THEN <<>>
    ELSE PiecesOfChunk[ch][Head(chunks)] \o Pieces(ch, Tail(chunks))

\* per channel, its tag followed by a text the channel's chunks hold
TaggedTexts ==
    [ch \in Channels |->
        IF ch = "stdout" THEN {"[stdout] a", "[stdout] b"} ELSE {"[stderr] e"}]

\* an entry that carries the tag of the channel
FromChannel(entry, ch) == entry \in TaggedTexts[ch]

\* the entries of the transcript that come from one channel, in order
EntriesFrom(out, ch) ==
    LET From(entry) == FromChannel(entry, ch)
    IN  SelectSeq(out, From)

\* C13: in every interleaving of the two drains the transcript's entries of a
\* channel are what the drain has read from that channel, in the order the
\* channel produced it; every entry carries the tag of the channel it came
\* from; and the transcript holds all of them, nothing is taken out.
C13_ChannelOrder ==
    /\ \A ch \in Channels : EntriesFrom(output, ch) = Pieces(ch, ReadSoFar(ch))
    /\ \A k \in 1..Len(output) : \E ch \in Channels : FromChannel(output[k], ch)
    /\ Len(output) = Len(Pieces("stdout", ReadSoFar("stdout")))
                       + Len(Pieces("stderr", ReadSoFar("stderr")))

\* a line of stderr was read between two lines of stdout
C13_Witness ==
    output = <<"[stdout] a", "[stderr] e", "[stdout] b">>

\* C17: the timeout of exec is free over 1 ms to 300000 ms: for a numeric
\* args.timeout t with 1 <= t <= 300000 the bound that arms the timer is t.
C17_BoundIsRequested ==
    (/\ e_pc # "idle"
     /\ timeoutArg.t = "number"
     /\ timeoutArg.v >= 1
     /\ timeoutArg.v <= MaxTimeoutMs) =>
        timeoutMs = Number(timeoutArg.v)

\* the bytes of a sequence of chunks, one after the other
RECURSIVE Concat(_)
Concat(chunks) ==
    IF chunks = <<>> THEN <<>> ELSE Head(chunks) \o Concat(Tail(chunks))

\* the lines of the text a channel has delivered so far, each with the tag
WholeLines(ch) ==
    LET ls == LinesOf(Decode(Concat(ReadSoFar(ch))))
    IN  [k \in 1..Len(ls) |-> Prefix(ch) \o ls[k]]

\* C18: however a channel's output is cut into chunks, the transcript's
\* entries of the channel are the lines of the text delivered, in order, one
\* entry per line: a line that arrives in two chunks is one entry.
C18_WholeLines ==
    \A ch \in Channels : EntriesFrom(output, ch) = WholeLines(ch)

----------------------------------------------------------------------------
(* Properties of runTool, the handlers and makeSchema, checked under SpecTools *)

\* the string forms of the faults a handler throws
Faults == { "Error: path parameter is required",
            "Error: ENOENT: no such file or directory, open 'f'",
            "SyntaxError: Invalid regular expression: missing )" }

\* C14: runTool returns a text for every name and every argument map: for a
\* name that is no capability the text error: unknown tool <name>, and for a
\* handler that threw the text error: followed by the fault.
C14_DispatchText ==
    t_name # "" =>
        /\ t_result # ""
        /\ t_name \notin ToolNames => t_result = "error: unknown tool " \o t_name
        /\ t_threw => t_result \in { "error: " \o fault : fault \in Faults }

\* the keys of a sequence of parameters or properties
Keys(entries, key(_)) == [i \in 1..Len(entries) |-> key(entries[i])]

DeclaredKey(param) == param[1]
PropertyKey(property) == property.key

Range(seq) == { seq[i] : i \in 1..Len(seq) }

\* C15: once makeSchema has run, the schema has one entry per capability; the
\* properties of an entry are the declared parameters of the capability, one
\* key each; required holds the parameters declared without a trailing "?";
\* every type is string, integer or boolean, integer where number is
\* declared, with or without "?", and the declared word otherwise.
C15_SchemaEntries ==
    schema # <<>> =>
        /\ Len(schema) = Cardinality(ToolNames)
        /\ { schema[k].name : k \in 1..Len(schema) } = ToolNames
        /\ \A k \in 1..Len(schema) :
             LET entry == schema[k]
                 declared == Params(entry.name)
             IN  /\ Keys(entry.properties, PropertyKey) = Keys(declared, DeclaredKey)
                 /\ Cardinality(Range(Keys(entry.properties, PropertyKey)))
                      = Len(declared)
                 /\ Range(entry.required)
                      = { declared[i][1] : i \in { j \in 1..Len(declared) :
                              declared[j][2][Len(declared[j][2])] # "?" } }
                 /\ Cardinality(Range(entry.required)) = Len(entry.required)
                 /\ \A i \in 1..Len(declared) :
                      /\ entry.properties[i].type \in {"string", "integer", "boolean"}
                      /\ entry.properties[i].type =
                           IF declared[i][2][1] = "number" THEN "integer"
                           ELSE declared[i][2][1]

\* the schema is built: read's optional offset is an integer and only its
\* path is required
C15_Witness ==
    /\ schema # <<>>
    /\ schema[1].name = "read"
    /\ schema[1].properties[2] = [key |-> "offset", type |-> "integer"]
    /\ schema[1].required = <<"path">>

\* the number of occurrences of s in text, counted from left to right without
\* overlap, as replaceAll finds them
RECURSIVE Occurrences(_, _)
Occurrences(text, s) ==
    IF Len(text) < Len(s) THEN 0
    ELSE IF StartsWith(text, s) THEN 1 + Occurrences(Drop(text, Len(s)), s)
         ELSE Occurrences(Tail(text), s)

\* a step that is a call of edit
EditCalled == t_name' = "edit" /\ schema' = schema

\* C16: edit called without all on a file that holds old_string n > 1 times
\* returns error: old_string appears <n> times, use all=true and leaves the
\* file as it is; every call of edit that returns something other than ok
\* leaves the file as it is.
C16_EditErrors ==
    [][ EditCalled =>
          /\ (/\ t_args'.path
              /\ fs.exists
              /\ ~t_args'.all
              /\ Occurrences(fs.text, t_args'.old) > 1) =>
                /\ t_result' = "error: old_string appears "
                                 \o ToString(Occurrences(fs.text, t_args'.old))
                                 \o " times, use all=true"
                /\ fs' = fs
          /\ t_result' # "ok" => fs' = fs
      ]_vars

\* edit was refused on the file that holds old_string three times
C16_Witness ==
    /\ t_name = "edit"
    /\ t_result = "error: old_string appears 3 times, use all=true"
    /\ fs = File(<<"a", "b", "a", "b", "a">>)

----------------------------------------------------------------------------
(* Termination of exec, checked under SpecExecFair *)

\* C22: every call of exec returns: once the command is spawned and the
\* drains are started, the call eventually has its result.
C22_ExecReturns == (e_pc = "draining") ~> (e_pc = "done")

====
